---- MODULE Spec2Model ----
(***************************************************************************)
(* windows/flutter/generated_plugin_registrant.cc                          *)
(*                                                                         *)
(* RegisterPlugins(registry) is five statements.  Each statement first     *)
(* evaluates its argument, registry->GetRegistrarForPlugin("<name>"), and  *)
(* then calls <Plugin>RegisterWithRegistrar on the value obtained.  The    *)
(* registry and the plugins are code of the host framework and of          *)
(* third-party packages: what a lookup returns and what a registration     *)
(* does are choices of the environment.                                    *)
(***************************************************************************)
EXTENDS Naturals, Sequences, FiniteSets, Bags

VARIABLES pc, registry, tmp, log, invoked, calls

vars == <<pc, registry, tmp, log, invoked, calls>>

(* ------------------------------ bounds --------------------------------- *)

\* Number of times the host calls RegisterPlugins in one behaviour.
MaxCalls == 2

\* A lookup yields registrar value 0 (a null registrar) or 1..MaxRegistrar.
MaxRegistrar == 1

(* --------------------------- environment ------------------------------- *)

\* The registries the host may hand to RegisterPlugins.
Registries == {"registryA", "registryB"}

NoRegistry == "none"

\* The empty slot of a statement's argument temporary.
NoRegistrar == [registry |-> NoRegistry, name |-> "", value |-> 0]

\* What a plugin's registration function may do with the registrar it gets.
RegistrationOutcomes == {"ok", "failed"}

\* registry->GetRegistrarForPlugin(name): the registrars the registry may
\* return; each is a view of that registry made for that name.
GetRegistrarForPlugin(r, name) ==
  { [registry |-> r, name |-> name, value |-> v] : v \in 0..MaxRegistrar }

(* ----------------------------- program --------------------------------- *)

\* A plugin is dropped from the list.
StatementsMissing ==
  << [plugin |-> "AppLinksPluginCApi", name |-> "AppLinksPluginCApi"],
     [plugin |-> "BatteryPlusWindowsPlugin", name |-> "BatteryPlusWindowsPlugin"],
     [plugin |-> "BlePeripheralPluginCApi", name |-> "BlePeripheralPluginCApi"],
     [plugin |-> "PermissionHandlerWindowsPlugin",
      name |-> "PermissionHandlerWindowsPlugin"] >>

\* Two statements change places.
StatementsReordered ==
  << [plugin |-> "AppLinksPluginCApi", name |-> "AppLinksPluginCApi"],
     [plugin |-> "BlePeripheralPluginCApi", name |-> "BlePeripheralPluginCApi"],
     [plugin |-> "BatteryPlusWindowsPlugin", name |-> "BatteryPlusWindowsPlugin"],
     [plugin |-> "BluetoothLowEnergyWindowsPluginCApi",
      name |-> "BluetoothLowEnergyWindowsPluginCApi"],
     [plugin |-> "PermissionHandlerWindowsPlugin",
      name |-> "PermissionHandlerWindowsPlugin"] >>

\* A statement asks the registry for another plugin's name.
StatementsWrongName ==
  << [plugin |-> "AppLinksPluginCApi", name |-> "AppLinksPluginCApi"],
     [plugin |-> "BatteryPlusWindowsPlugin", name |-> "BatteryPlusWindowsPlugin"],
     [plugin |-> "BlePeripheralPluginCApi", name |-> "BlePeripheralPluginCApi"],
     [plugin |-> "BluetoothLowEnergyWindowsPluginCApi",
      name |-> "BlePeripheralPluginCApi"],
     [plugin |-> "PermissionHandlerWindowsPlugin",
      name |-> "PermissionHandlerWindowsPlugin"] >>

\* A name literal is pasted from the statement above: one name is requested
\* twice and another never.
StatementsRepeatedName ==
  << [plugin |-> "AppLinksPluginCApi", name |-> "AppLinksPluginCApi"],
     [plugin |-> "BatteryPlusWindowsPlugin", name |-> "AppLinksPluginCApi"],
     [plugin |-> "BlePeripheralPluginCApi", name |-> "BlePeripheralPluginCApi"],
     [plugin |-> "BluetoothLowEnergyWindowsPluginCApi",
      name |-> "BluetoothLowEnergyWindowsPluginCApi"],
     [plugin |-> "PermissionHandlerWindowsPlugin",
      name |-> "PermissionHandlerWindowsPlugin"] >>

\* A plugin that is not in the list is registered as well.
StatementsExtra ==
  << [plugin |-> "AppLinksPluginCApi", name |-> "AppLinksPluginCApi"],
     [plugin |-> "BatteryPlusWindowsPlugin", name |-> "BatteryPlusWindowsPlugin"],
     [plugin |-> "BlePeripheralPluginCApi", name |-> "BlePeripheralPluginCApi"],
     [plugin |-> "BluetoothLowEnergyWindowsPluginCApi",
      name |-> "BluetoothLowEnergyWindowsPluginCApi"],
     [plugin |-> "PermissionHandlerWindowsPlugin",
      name |-> "PermissionHandlerWindowsPlugin"],
     [plugin |-> "UrlLauncherWindows", name |-> "UrlLauncherWindows"] >>

\* A statement is written twice.
StatementsDuplicate ==
  << [plugin |-> "AppLinksPluginCApi", name |-> "AppLinksPluginCApi"],
     [plugin |-> "BatteryPlusWindowsPlugin", name |-> "BatteryPlusWindowsPlugin"],
     [plugin |-> "BatteryPlusWindowsPlugin", name |-> "BatteryPlusWindowsPlugin"],
     [plugin |-> "BlePeripheralPluginCApi", name |-> "BlePeripheralPluginCApi"],
     [plugin |-> "BluetoothLowEnergyWindowsPluginCApi",
      name |-> "BluetoothLowEnergyWindowsPluginCApi"],
     [plugin |-> "PermissionHandlerWindowsPlugin",
      name |-> "PermissionHandlerWindowsPlugin"] >>

\* The statements of RegisterPlugins, in source order.  plugin is the plugin
\* whose <plugin>RegisterWithRegistrar function the statement calls, name is
\* the string literal the statement passes to GetRegistrarForPlugin.
Statements ==
  << [plugin |-> "AppLinksPluginCApi", name |-> "AppLinksPluginCApi"],
     [plugin |-> "BatteryPlusWindowsPlugin", name |-> "BatteryPlusWindowsPlugin"],
     [plugin |-> "BlePeripheralPluginCApi", name |-> "BlePeripheralPluginCApi"],
     [plugin |-> "BluetoothLowEnergyWindowsPluginCApi",
      name |-> "BluetoothLowEnergyWindowsPluginCApi"],
     [plugin |-> "PermissionHandlerWindowsPlugin",
      name |-> "PermissionHandlerWindowsPlugin"] >>

\* Every registrar is fetched before the first registration function runs.
ProgramFetchFirst ==
  [ k \in 1..(2 * Len(Statements)) |->
      IF k <= Len(Statements)
        THEN [op |-> "get", stmt |-> k]
        ELSE [op |-> "call", stmt |-> k - Len(Statements)] ]

\* The order of evaluation: a call's argument is evaluated before the call,
\* and a statement is finished before the next one starts.  Step 2i-1 is the
\* lookup of statement i and step 2i its registration call.
Program ==
  [ k \in 1..(2 * Len(Statements)) |->
      IF k % 2 = 1
        THEN [op |-> "get", stmt |-> (k + 1) \div 2]
        ELSE [op |-> "call", stmt |-> k \div 2] ]

\* The position after the last statement: the closing brace.
End == Len(Program) + 1

\* The function gives up as soon as a call produced a failure.
AdvanceStopOnFailure(k, ok) == IF ok THEN k + 1 ELSE End

\* A call that produced a failure is made again.
AdvanceRetry(k, ok) == IF ok THEN k + 1 ELSE k

\* Control after step k returned: straight-line code, whatever the call
\* produced (ok is whether it produced a usable registrar / succeeded).
Advance(k, ok) == k + 1

(* ------------------------------ state ---------------------------------- *)

RECURSIVE SumOver(_, _)
SumOver(f, S) ==
  IF S = {} THEN 0
  ELSE LET x == CHOOSE y \in S : TRUE IN f[x] + SumOver(f, S \ {x})

Init ==
  /\ pc = 0
  /\ registry = NoRegistry
  /\ tmp = [i \in DOMAIN Statements |-> NoRegistrar]
  /\ log = << >>
  /\ invoked = EmptyBag
  /\ calls = [r \in Registries |-> 0]

\* The host calls RegisterPlugins(r).
Call(r) ==
  /\ pc = 0
  /\ SumOver(calls, Registries) < MaxCalls
  /\ pc' = 1
  /\ registry' = r
  /\ calls' = [calls EXCEPT ![r] = @ + 1]
  /\ UNCHANGED <<tmp, log, invoked>>

\* registry->GetRegistrarForPlugin("<name>") of the statement at pc.
GetRegistrar ==
  /\ pc \in DOMAIN Program
  /\ Program[pc].op = "get"
  /\ LET s == Program[pc].stmt IN
       \E h \in GetRegistrarForPlugin(registry, Statements[s].name) :
          /\ tmp' = [tmp EXCEPT ![s] = h]
          /\ log' = Append(log, [op |-> "get", on |-> registry,
                                 name |-> Statements[s].name, registrar |-> h])
          /\ pc' = Advance(pc, h.value # 0)
  /\ UNCHANGED <<registry, invoked, calls>>

\* <Plugin>RegisterWithRegistrar(<the registrar just obtained>).
RegisterWithRegistrar ==
  /\ pc \in DOMAIN Program
  /\ Program[pc].op = "call"
  /\ LET s == Program[pc].stmt IN
       /\ tmp[s] # NoRegistrar
       /\ \E outcome \in RegistrationOutcomes :
            /\ log' = Append(log, [op |-> "call", plugin |-> Statements[s].plugin,
                                   registrar |-> tmp[s], outcome |-> outcome])
            /\ pc' = Advance(pc, outcome = "ok")
       /\ invoked' = invoked (+) SetToBag({<<tmp[s].registry, Statements[s].plugin>>})
       /\ tmp' = [tmp EXCEPT ![s] = NoRegistrar]
  /\ UNCHANGED <<registry, calls>>

\* RegisterPlugins returns to the host; log is the trace of the execution
\* in progress and ends with it.
Return ==
  /\ pc = End
  /\ pc' = 0
  /\ registry' = NoRegistry
  /\ log' = << >>
  /\ UNCHANGED <<tmp, invoked, calls>>

\* One step of RegisterPlugins itself.
Step == GetRegistrar \/ RegisterWithRegistrar \/ Return

Next ==
  \/ \E r \in Registries : Call(r)
  \/ GetRegistrar
  \/ RegisterWithRegistrar
  \/ Return

Spec == Init /\ [][Next]_vars

\* Every call RegisterPlugins makes returns, and the thread keeps running.
FairSpec == Spec /\ WF_vars(Step)

(* ------------------------- reading the trace --------------------------- *)

\* RegisterPlugins has executed its last statement and is about to return.
Done == pc = End

IsGet(j) == log[j].op = "get"

IsCall(j) == log[j].op = "call"

\* The positions of the trace where plugin p's registration function ran.
CallsOf(p) == { j \in DOMAIN log : IsCall(j) /\ log[j].plugin = p }

\* The positions of the trace where the registrar for name n was requested.
GetsOf(n) == { j \in DOMAIN log : IsGet(j) /\ log[j].name = n }

AllCalls == { j \in DOMAIN log : IsCall(j) }

AllGets == { j \in DOMAIN log : IsGet(j) }

\* The plugins in the order their registration functions ran.
CallOrder ==
  LET cs == SelectSeq(log, LAMBDA e : e.op = "call")
  IN  [ j \in DOMAIN cs |-> cs[j].plugin ]

\* The five plugins, in the order the specification lists them.
ListedOrder ==
  << "AppLinksPluginCApi", "BatteryPlusWindowsPlugin", "BlePeripheralPluginCApi",
     "BluetoothLowEnergyWindowsPluginCApi", "PermissionHandlerWindowsPlugin" >>

ListedPlugins == { ListedOrder[i] : i \in DOMAIN ListedOrder }

IsPrefix(s, t) == Len(s) <= Len(t) /\ \A i \in DOMAIN s : s[i] = t[i]

(* ------------------------------ claims --------------------------------- *)

\* C1: in one execution of RegisterPlugins that runs to completion, each of
\* the five registration entry points is invoked exactly once; none is
\* skipped and, at any point of the execution, none has been invoked twice.
C1_EachEntryPointOnce ==
  /\ \A p \in ListedPlugins : Cardinality(CallsOf(p)) <= 1
  /\ Done => \A p \in ListedPlugins : Cardinality(CallsOf(p)) = 1

C1_Witness ==
  /\ Done
  /\ Cardinality(AllCalls) = 5
  /\ \A p \in ListedPlugins : CallsOf(p) # {}

\* C2: the registration entry points run in the listed order: at every
\* point of an execution the plugins registered so far are an initial
\* segment of the list, so one starts only after its predecessor returned.
C2_ListedOrder == IsPrefix(CallOrder, ListedOrder)

C2_Witness == Done /\ CallOrder = ListedOrder

\* C3: every registration entry point is passed the registrar that the
\* registry handed to RegisterPlugins returned for that same plugin's name:
\* the argument is the result of the latest lookup under the plugin's name,
\* made on the registry of this call.
C3_OwnRegistrar ==
  \A j \in AllCalls :
    /\ log[j].registrar.registry = registry
    /\ log[j].registrar.name = log[j].plugin
    /\ \E i \in GetsOf(log[j].plugin) :
         /\ i < j
         /\ log[i].on = registry
         /\ log[i].registrar = log[j].registrar
         /\ \A i2 \in GetsOf(log[j].plugin) : i2 < j => i2 <= i

\* Two registrations of one execution received different registrar values,
\* each the one its own lookup returned.
C3_Witness ==
  /\ Done
  /\ \E j1, j2 \in AllCalls :
       /\ log[j1].registrar.value # log[j2].registrar.value
       /\ log[j1 - 1].registrar = log[j1].registrar
       /\ log[j2 - 1].registrar = log[j2].registrar

\* C4: the plugins registered are exactly the fixed set of five: nothing
\* outside the set is ever registered, registrations are made only with a
\* registry that was supplied to RegisterPlugins, and when RegisterPlugins
\* completes every plugin of the set is registered with the supplied one.
C4_ExactlyTheFixedSet ==
  /\ \A e \in BagToSet(invoked) : e[2] \in ListedPlugins /\ calls[e[1]] > 0
  /\ Done => \A p \in ListedPlugins : BagIn(<<registry, p>>, invoked)

C4_Witness ==
  /\ Done
  /\ { e[2] : e \in BagToSet(invoked) } = ListedPlugins
  /\ \A e \in BagToSet(invoked) : e[1] = registry

\* C5: RegisterPlugins has no branching and no error path: after every
\* lookup and every registration, whatever it produced, control moves to the
\* next step and one more call has been made; so when the end is reached all
\* five registrations were attempted, and nothing was attempted twice.
C5_NoErrorPath ==
  /\ [][(pc \in DOMAIN Program) =>
          ((pc' = pc + 1) /\ (Len(log') = Len(log) + 1))]_vars
  /\ [](Done => Cardinality(AllCalls) = 5 /\ \A p \in ListedPlugins : CallsOf(p) # {})

\* The first lookup returned a null registrar and the first registration
\* failed, and the four later plugins were registered all the same.
C5_Witness ==
  /\ Done
  /\ log[1].registrar.value = 0
  /\ log[2].outcome = "failed"
  /\ Cardinality(AllCalls) = 5

\* C6: when every lookup and every registration function returns,
\* RegisterPlugins terminates: an execution in progress reaches its end, it
\* has then made exactly five lookups and five registration calls, and at
\* no point of an execution is it waiting for anything but its own next step.
C6_Terminates ==
  /\ (pc # 0) ~> Done
  /\ [](Done => Cardinality(AllGets) = 5 /\ Cardinality(AllCalls) = 5)
  /\ [](pc # 0 => ENABLED Step)

C6_Witness == Done /\ Len(log) = 10 /\ calls[registry] = MaxCalls

\* C7 as stated: over any sequence of calls of RegisterPlugins on the same
\* registry each plugin's registration entry point is invoked at most once
\* in total.
C7_AtMostOnceInTotal ==
  \A e \in BagToSet(invoked) : CopiesIn(e, invoked) <= 1

\* C7 amended: registration is once per call, not once in total.  Between
\* executions, each entry point has been invoked with each registry exactly
\* as many times as RegisterPlugins was called with that registry; a second
\* call registers every plugin again.
C7_OncePerCall ==
  /\ \A r \in Registries : \A p \in ListedPlugins :
       CopiesIn(<<r, p>>, invoked) <= calls[r]
  /\ pc = 0 =>
       \A r \in Registries : \A p \in ListedPlugins :
         CopiesIn(<<r, p>>, invoked) = calls[r]

C7_Witness ==
  /\ pc = 0
  /\ \E r \in Registries :
       /\ calls[r] = 2
       /\ \A p \in ListedPlugins : CopiesIn(<<r, p>>, invoked) = 2

\* C8: lookups and registrations strictly alternate: the trace of an
\* execution is lookup, registration, lookup, registration, ...; every
\* registration is immediately preceded by the lookup for its own plugin,
\* and every lookup but the first immediately follows the registration of
\* the plugin before, so as many registrations as lookups precede a lookup.
C8_Alternate ==
  \A j \in DOMAIN log :
    /\ IsGet(j) <=> j % 2 = 1
    /\ IsCall(j) => IsGet(j - 1) /\ log[j - 1].name = log[j].plugin
    /\ IsGet(j) /\ j > 1 => IsCall(j - 1)
    /\ IsGet(j) =>
         Cardinality({ i \in AllCalls : i < j }) = Cardinality({ i \in AllGets : i < j })

\* The second plugin's registrar was requested after the first plugin's
\* registration function had run.
C8_Witness ==
  /\ Done
  /\ IsCall(2) /\ log[2].plugin = ListedOrder[1]
  /\ IsGet(3) /\ log[3].name = ListedOrder[2]

\* C9: RegisterPlugins uses the registry for GetRegistrarForPlugin alone,
\* on the registry it was given, with five pairwise distinct names, each
\* requested exactly once per call; and it keeps nothing between calls: while
\* no execution is in progress it holds no registrar, no registry and no
\* trace; what the plugins hold changes only in a step that is a call of a
\* registration function, and the call count only when the host calls.
C9_LookupsAndFrame ==
  /\ [](\A j \in AllGets : log[j].on = registry /\ log[j].name \in ListedPlugins)
  /\ [](\A n \in ListedPlugins : Cardinality(GetsOf(n)) <= 1)
  /\ [](Done => \A n \in ListedPlugins : Cardinality(GetsOf(n)) = 1)
  /\ [](Cardinality({ i \in DOMAIN tmp : tmp[i] # NoRegistrar }) <= 1)
  /\ [](pc = 0 =>
         /\ registry = NoRegistry
         /\ log = << >>
         /\ \A i \in DOMAIN tmp : tmp[i] = NoRegistrar)
  /\ [][(invoked' # invoked) =>
          ((Len(log') = Len(log) + 1) /\ (log'[Len(log')].op = "call"))]_vars
  /\ [][(calls' # calls) => (pc = 0)]_vars

\* A second execution is at its end: it requested each of the five names
\* once, although the first execution had requested them all before.
C9_Witness ==
  /\ Done
  /\ calls[registry] = 2
  /\ { log[j].name : j \in AllGets } = ListedPlugins
  /\ Cardinality(AllGets) = 5

====
